---- MODULE Spec2Model ----
(***************************************************************************)
(* Model of src/renderer.rs (perrygeo/matcha): the code generator that     *)
(* turns a parsed template (a sequence of Node values) into the text of a  *)
(* Gleam module.                                                           *)
(*                                                                         *)
(* A Rust String is modelled as a sequence of pieces.  The pieces of the   *)
(* format strings are kept verbatim as TLA+ strings; a Text payload is a   *)
(* sequence of one-character strings, so that str::replace works on        *)
(* characters; names, types and import paths are single pieces.            *)
(* format!/push_str/join are sequence concatenation.                       *)
(*                                                                         *)
(* render_lines is recursive: the model keeps its activations on `stack`   *)
(* and the cursors they borrow on `iters`.                                 *)
(***************************************************************************)
EXTENDS Naturals, Sequences, FiniteSets

(***************************************************************************)
(* Bounds of the explored inputs.                                          *)
(***************************************************************************)
\* total number of nodes of a template of the general specification
MaxNodes == 3
\* total number of nodes of a template made of With and If nodes only
MaxDeclNodes == 5
\* nesting depth of If/For bodies
MaxDepth == 2
\* length of a Text payload in the specification of the Text arm
MaxTextLen == 4

(***************************************************************************)
(* Node (crate::parser::Node), one constructor per variant.                *)
(***************************************************************************)
Text(text) == [tag |-> "Text", text |-> text]
Identifier(name) == [tag |-> "Identifier", name |-> name]
Builder(name) == [tag |-> "Builder", name |-> name]
Import(import_details) == [tag |-> "Import", import_details |-> import_details]
With(identifier, range, type_) ==
    [tag |-> "With", identifier |-> identifier, range |-> range, type_ |-> type_]
If(identifier_name, if_nodes, else_nodes) ==
    [tag |-> "If", identifier_name |-> identifier_name,
     if_nodes |-> if_nodes, else_nodes |-> else_nodes]
\* entry_type is an Option<String>: <<>> is None, <<t>> is Some(t)
For(entry_identifier, entry_type, list_identifier, loop_nodes) ==
    [tag |-> "For", entry_identifier |-> entry_identifier, entry_type |-> entry_type,
     list_identifier |-> list_identifier, loop_nodes |-> loop_nodes]

(***************************************************************************)
(* Result values.                                                          *)
(***************************************************************************)
DuplicateParamName(name, range) ==
    [tag |-> "Err", kind |-> "DuplicateParamName", name |-> name, range |-> range]
Ok(output) == [tag |-> "Ok", output |-> output]
Pending == [tag |-> "Pending"]

(***************************************************************************)
(* String helpers.                                                         *)
(***************************************************************************)
RECURSIVE Join(_, _)
\* Vec<String>::join(sep)
Join(parts, sep) ==
    IF Len(parts) = 0 THEN <<>>
    ELSE IF Len(parts) = 1 THEN parts[1]
    ELSE parts[1] \o sep \o Join(Tail(parts), sep)

\* does pattern `from` occur in s at index i
MatchAt(s, i, from) ==
    /\ i + Len(from) - 1 <= Len(s)
    /\ \A k \in 1..Len(from) : s[i + k - 1] = from[k]

RECURSIVE ReplaceFrom(_, _, _, _)
ReplaceFrom(s, i, from, to) ==
    IF i > Len(s) THEN <<>>
    ELSE IF MatchAt(s, i, from) THEN to \o ReplaceFrom(s, i + Len(from), from, to)
    ELSE <<s[i]>> \o ReplaceFrom(s, i + 1, from, to)

\* str::replace(from, to): every non-overlapping match, left to right
Replace(s, from, to) == ReplaceFrom(s, 1, from, to)

\* a slip: replacen(.., 1), only the first double quote is escaped
EscapeTextFirst(text) ==
    LET quotes == {k \in 1..Len(text) : text[k] = "\""} IN
    IF quotes = {} THEN text
    ELSE LET j == CHOOSE k \in quotes : \A m \in quotes : k <= m
         IN SubSeq(text, 1, j - 1) \o <<"\\", "\"">> \o SubSeq(text, j + 1, Len(text))

\* text.replace("\"", "\\\"")
EscapeText(text) == Replace(text, <<"\"">>, <<"\\", "\"">>)

(***************************************************************************)
(* The statements render_lines pushes onto builder_lines.                  *)
(***************************************************************************)
TextLine(text) ==
    <<"    let builder = string_builder.append(builder, \"">>
        \o EscapeText(text) \o <<"\")\n">>

IdentifierLine(name) ==
    <<"    let builder = string_builder.append(builder, ", name, ")\n">>

BuilderLine(name) ==
    <<"    let builder = string_builder.append_builder(builder, ", name, ")\n">>

\* a slip: the two branches in each other's arm
IfLineSwapped(identifier_name, if_lines, else_lines) ==
    <<"    let builder = case ", identifier_name, " {\n        True -> {\n            ">>
        \o else_lines
        \o <<"\n            builder\n        }\n        False -> {\n            ">>
        \o if_lines
        \o <<"\n            builder\n        }\n}\n">>

IfLine(identifier_name, if_lines, else_lines) ==
    <<"    let builder = case ", identifier_name, " {\n        True -> {\n            ">>
        \o if_lines
        \o <<"\n            builder\n        }\n        False -> {\n            ">>
        \o else_lines
        \o <<"\n            builder\n        }\n}\n">>

EntryType(entry_type) ==
    IF Len(entry_type) = 0 THEN <<>> ELSE <<": ", entry_type[1]>>

ForLine(list_identifier, entry_identifier, entry_type, loop_lines) ==
    <<"    let builder = list.fold(", list_identifier, ", builder, fn(builder, ",
      entry_identifier>>
        \o EntryType(entry_type)
        \o <<") {\n        ">>
        \o loop_lines
        \o <<"\n        builder\n})\n">>

(***************************************************************************)
(* render: assembling the module from the top-level traversal's results.   *)
(***************************************************************************)
ImportLines(imports) ==
    Join([i \in 1..Len(imports) |-> <<"import ", imports[i]>>], <<"\n">>)

ParamsString(typed_params) ==
    Join([i \in 1..Len(typed_params) |->
            <<typed_params[i][1], " ", typed_params[i][1], ": ", typed_params[i][2]>>],
         <<", ">>)

\* a slip: the forwarded argument is the type, not the name
ArgsStringTyped(typed_params) ==
    Join([i \in 1..Len(typed_params) |->
            <<typed_params[i][1], ": ", typed_params[i][2]>>],
         <<", ">>)

ArgsString(typed_params) ==
    Join([i \in 1..Len(typed_params) |->
            <<typed_params[i][1], ": ", typed_params[i][1]>>],
         <<", ">>)

Output(builder_lines, imports, typed_params) ==
    <<"import gleam/string_builder.{StringBuilder}\nimport gleam/list\n\n">>
        \o ImportLines(imports)
        \o <<"\n\npub fn render_builder(">>
        \o ParamsString(typed_params)
        \o <<") -> StringBuilder {\n    let builder = string_builder.from_string(\"\")\n">>
        \o builder_lines
        \o <<"\n    builder\n}\n\npub fn render(">>
        \o ParamsString(typed_params)
        \o <<") -> String {\n    string_builder.to_string(render_builder(">>
        \o ArgsString(typed_params)
        \o <<"))\n}\n">>

(***************************************************************************)
(* State.                                                                  *)
(***************************************************************************)
VARIABLES
    ast,        \* the node sequence the caller built (never changed)
    iters,      \* the cursors: iters[1] is render's, iters[d] the d-th nested one
    stack,      \* the activations of render_lines, innermost last
    result,     \* what render returned
    pc,         \* "call" before render is called, "lines" inside, "done" after
    consumed    \* how many times iter.next() has run

vars == <<ast, iters, stack, result, pc, consumed>>

\* the locals of a fresh render_lines activation
NewFrame ==
    [builder_lines |-> <<>>, imports |-> <<>>, typed_params |-> <<>>,
     at |-> "loop", node |-> [tag |-> "None"], if_lines |-> <<>>]

Depth == Len(stack)
Top == stack[Depth]
Cur == iters[Depth]

\* iter.peek() of the running activation is Some(node) with this tag
Peek(tag) ==
    /\ pc = "lines"
    /\ Top.at = "loop"
    /\ Len(Cur) > 0
    /\ Head(Cur).tag = tag

\* iter.next() on the running activation's cursor
Advance == [iters EXCEPT ![Depth] = Tail(Cur)]

SetTop(frame) == [stack EXCEPT ![Depth] = frame]

\* a slip: the statement goes in front of the ones already there
PushStrFront(builder_lines, line) == line \o builder_lines

\* builder_lines.push_str(line)
PushStr(builder_lines, line) == builder_lines \o line

\* a slip: an item already there is not pushed again
PushUnique(vec, item) ==
    IF \E i \in 1..Len(vec) : vec[i] = item THEN vec ELSE Append(vec, item)

\* imports.push(..) and typed_params.push(..)
Push(vec, item) == Append(vec, item)

\* a slip: the declared type is compared, not the name
AnyNamedByType(typed_params, identifier) ==
    \E i \in 1..Len(typed_params) : typed_params[i][2] = identifier

\* a slip: only the parameter pushed last is compared
AnyNamedLast(typed_params, identifier) ==
    Len(typed_params) > 0 /\ typed_params[Len(typed_params)][1] = identifier

\* typed_params.iter().any(|(name, _)| name == identifier)
AnyNamed(typed_params, identifier) ==
    \E i \in 1..Len(typed_params) : typed_params[i][1] = identifier

(***************************************************************************)
(* Input templates.  The parser gives every node its place in the source;  *)
(* Label numbers the nodes in source order and a With node's range is its  *)
(* number.                                                                 *)
(***************************************************************************)
\* the nodes a template of the general specification is made of
Nodes ==
    {Text(<<"h", "\"">>), Identifier("a"), Builder("b"), Import("p"), Import("q"),
     With("a", 0, "String"), With("a", 0, "Bool"),
     With("b", 0, "String"), With("b", 0, "Bool"),
     If("cond", <<>>, <<>>),
     For("item", <<>>, "list", <<>>), For("item", <<"Item">>, "list", <<>>)}

\* the nodes of a template of declarations and conditionals only
DeclNodes == {With("a", 0, "String"), With("b", 0, "Bool"), If("cond", <<>>, <<>>)}

\* the bodies of a node: 1 is if_nodes or loop_nodes, 2 is else_nodes
Branches == {1, 2}

\* where a node can be added: the bodies to enter, from the last top-level node on
Paths == UNION {[1..k -> Branches] : k \in 0..MaxDepth}

IsLeaf(node) == node.tag \notin {"If", "For"}

RECURSIVE Place(_, _, _)
\* nodes with `node` added at the end of the body `path` leads to (nodes itself
\* when there is no such body, or the node would nest deeper than MaxDepth)
Place(nodes, node, path) ==
    IF Len(path) = 0 THEN Append(nodes, node)
    ELSE IF Len(nodes) = 0 THEN nodes
    ELSE
        LET last == nodes[Len(nodes)]
            front == SubSeq(nodes, 1, Len(nodes) - 1)
        IN CASE last.tag = "If" /\ path[1] = 1 ->
                    Append(front, If(last.identifier_name,
                                     Place(last.if_nodes, node, Tail(path)),
                                     last.else_nodes))
             [] last.tag = "If" /\ path[1] = 2 ->
                    Append(front, If(last.identifier_name, last.if_nodes,
                                     Place(last.else_nodes, node, Tail(path))))
             [] last.tag = "For" /\ path[1] = 1 ->
                    Append(front, For(last.entry_identifier, last.entry_type,
                                      last.list_identifier,
                                      Place(last.loop_nodes, node, Tail(path))))
             [] OTHER -> nodes

RECURSIVE Forests(_, _)
\* the node sequences of at most n nodes in all, each one of `nodes` (with its
\* bodies filled in), nested at most MaxDepth deep
Forests(n, nodes) ==
    IF n = 0 THEN {<<>>}
    ELSE {IF IsLeaf(node) \/ Len(path) < MaxDepth THEN Place(f, node, path) ELSE f :
            f \in Forests(n - 1, nodes), node \in nodes, path \in Paths}

RECURSIVE Label(_, _)
\* [nodes, next]: the sequence with its nodes numbered from `next` on
Label(nodes, next) ==
    IF Len(nodes) = 0 THEN [nodes |-> <<>>, next |-> next]
    ELSE
        LET n == Head(nodes)
            first ==
                CASE n.tag = "With" ->
                       [nodes |-> <<With(n.identifier, next, n.type_)>>, next |-> next + 1]
                  [] n.tag = "If" ->
                       LET th == Label(n.if_nodes, next + 1)
                           el == Label(n.else_nodes, th.next)
                       IN [nodes |-> <<If(n.identifier_name, th.nodes, el.nodes)>>,
                           next |-> el.next]
                  [] n.tag = "For" ->
                       LET body == Label(n.loop_nodes, next + 1)
                       IN [nodes |-> <<For(n.entry_identifier, n.entry_type,
                                           n.list_identifier, body.nodes)>>,
                           next |-> body.next]
                  [] OTHER -> [nodes |-> <<n>>, next |-> next + 1]
            rest == Label(Tail(nodes), first.next)
        IN [nodes |-> first.nodes \o rest.nodes, next |-> rest.next]

Templates == {Label(f, 1).nodes : f \in Forests(MaxNodes, Nodes)}

DeclTemplates == {Label(f, 1).nodes : f \in Forests(MaxDeclNodes, DeclNodes)}

Chars == {"h", "\"", "\\"}

RECURSIVE Strings(_)
Strings(n) ==
    IF n = 0 THEN {<<>>}
    ELSE {IF c = "" THEN s ELSE Append(s, c) : s \in Strings(n - 1), c \in Chars \cup {""}}

TextTemplates == {<<Text(s)>> : s \in Strings(MaxTextLen)}

(***************************************************************************)
(* Initial states: the caller has built the node sequence and a cursor     *)
(* over it, and render has not been called yet.                            *)
(***************************************************************************)
InitWith(templates) ==
    /\ ast \in templates
    /\ iters = <<ast>>
    /\ stack = <<>>
    /\ result = Pending
    /\ pc = "call"
    /\ consumed = 0

Init == InitWith(Templates)
InitDecl == InitWith(DeclTemplates)
InitText == InitWith(TextTemplates)

(***************************************************************************)
(* render and render_lines.                                                *)
(***************************************************************************)
\* render calls render_lines(iter)
CallRender ==
    /\ pc = "call"
    /\ pc' = "lines"
    /\ stack' = <<NewFrame>>
    /\ UNCHANGED <<ast, iters, result, consumed>>

\* Some(Node::Text(text))
StepText ==
    /\ Peek("Text")
    /\ iters' = Advance
    /\ stack' = SetTop([Top EXCEPT
            !.builder_lines = PushStr(@, TextLine(Head(Cur).text))])
    /\ consumed' = consumed + 1
    /\ UNCHANGED <<ast, result, pc>>

\* Some(Node::Identifier(name))
StepIdentifier ==
    /\ Peek("Identifier")
    /\ iters' = Advance
    /\ stack' = SetTop([Top EXCEPT
            !.builder_lines = PushStr(@, IdentifierLine(Head(Cur).name))])
    /\ consumed' = consumed + 1
    /\ UNCHANGED <<ast, result, pc>>

\* Some(Node::Builder(name))
StepBuilder ==
    /\ Peek("Builder")
    /\ iters' = Advance
    /\ stack' = SetTop([Top EXCEPT
            !.builder_lines = PushStr(@, BuilderLine(Head(Cur).name))])
    /\ consumed' = consumed + 1
    /\ UNCHANGED <<ast, result, pc>>

\* a slip: the Import arm without its iter.next()
StepImportNoNext ==
    /\ Peek("Import")
    /\ stack' = SetTop([Top EXCEPT
            !.imports = Push(@, Head(Cur).import_details)])
    /\ UNCHANGED <<ast, iters, result, pc, consumed>>

\* Some(Node::Import(import_details))
StepImport ==
    /\ Peek("Import")
    /\ iters' = Advance
    /\ stack' = SetTop([Top EXCEPT
            !.imports = Push(@, Head(Cur).import_details)])
    /\ consumed' = consumed + 1
    /\ UNCHANGED <<ast, result, pc>>

\* Some(Node::With((identifier, range), type_)); the Err goes up through every
\* enclosing `?`, dropping the nested cursors, and is what render returns
StepWith ==
    /\ Peek("With")
    /\ consumed' = consumed + 1
    /\ LET n == Head(Cur) IN
        IF AnyNamed(Top.typed_params, n.identifier)
        THEN /\ result' = DuplicateParamName(n.identifier, n.range)
             /\ pc' = "done"
             /\ stack' = <<>>
             /\ iters' = <<Advance[1]>>
        ELSE /\ stack' = SetTop([Top EXCEPT
                    !.typed_params = Push(@, <<n.identifier, n.type_>>)])
             /\ iters' = Advance
             /\ UNCHANGED <<result, pc>>
    /\ UNCHANGED ast

\* a slip: the then-branch is traversed with the caller's parameter list
StepIfShared ==
    /\ Peek("If")
    /\ iters' = Append(Advance, Head(Cur).if_nodes)
    /\ stack' = Append(SetTop([Top EXCEPT !.at = "if_nodes", !.node = Head(Cur)]),
                       [NewFrame EXCEPT !.typed_params = Top.typed_params])
    /\ consumed' = consumed + 1
    /\ UNCHANGED <<ast, result, pc>>

\* Some(Node::If(..)): iter.next() and the call render_lines(if_nodes)
StepIf ==
    /\ Peek("If")
    /\ iters' = Append(Advance, Head(Cur).if_nodes)
    /\ stack' = Append(SetTop([Top EXCEPT !.at = "if_nodes", !.node = Head(Cur)]),
                       NewFrame)
    /\ consumed' = consumed + 1
    /\ UNCHANGED <<ast, result, pc>>

\* Some(Node::For(..)): iter.next() and the call render_lines(loop_nodes)
StepFor ==
    /\ Peek("For")
    /\ iters' = Append(Advance, Head(Cur).loop_nodes)
    /\ stack' = Append(SetTop([Top EXCEPT !.at = "loop_nodes", !.node = Head(Cur)]),
                       NewFrame)
    /\ consumed' = consumed + 1
    /\ UNCHANGED <<ast, result, pc>>

\* None => break, in an activation called from `at` of its caller
Returns(at) ==
    /\ pc = "lines"
    /\ Top.at = "loop"
    /\ Len(Cur) = 0
    /\ Depth > 1
    /\ stack[Depth - 1].at = at

Caller == stack[Depth - 1]

\* the then-branch is rendered: its imports and parameters are dropped and
\* render_lines(else_nodes) is called
ReturnIfLines ==
    /\ Returns("if_nodes")
    /\ stack' = SubSeq(stack, 1, Depth - 2)
            \o <<[Caller EXCEPT !.at = "else_nodes", !.if_lines = Top.builder_lines],
                 NewFrame>>
    /\ iters' = Append(SubSeq(iters, 1, Depth - 1), Caller.node.else_nodes)
    /\ UNCHANGED <<ast, result, pc, consumed>>

\* the else-branch is rendered: the case statement is pushed
ReturnElseLines ==
    /\ Returns("else_nodes")
    /\ stack' = Append(SubSeq(stack, 1, Depth - 2),
            [Caller EXCEPT !.at = "loop", !.node = [tag |-> "None"], !.if_lines = <<>>,
                !.builder_lines = PushStr(@,
                    IfLine(Caller.node.identifier_name, Caller.if_lines,
                           Top.builder_lines))])
    /\ iters' = SubSeq(iters, 1, Depth - 1)
    /\ UNCHANGED <<ast, result, pc, consumed>>

\* a slip: the body's imports and parameters are kept, not dropped
ReturnLoopLinesKeeping ==
    /\ Returns("loop_nodes")
    /\ stack' = Append(SubSeq(stack, 1, Depth - 2),
            [Caller EXCEPT !.at = "loop", !.node = [tag |-> "None"],
                !.imports = @ \o Top.imports,
                !.typed_params = @ \o Top.typed_params,
                !.builder_lines = PushStr(@,
                    ForLine(Caller.node.list_identifier, Caller.node.entry_identifier,
                            Caller.node.entry_type, Top.builder_lines))])
    /\ iters' = SubSeq(iters, 1, Depth - 1)
    /\ UNCHANGED <<ast, result, pc, consumed>>

\* the loop body is rendered: the fold is pushed
ReturnLoopLines ==
    /\ Returns("loop_nodes")
    /\ stack' = Append(SubSeq(stack, 1, Depth - 2),
            [Caller EXCEPT !.at = "loop", !.node = [tag |-> "None"],
                !.builder_lines = PushStr(@,
                    ForLine(Caller.node.list_identifier, Caller.node.entry_identifier,
                            Caller.node.entry_type, Top.builder_lines))])
    /\ iters' = SubSeq(iters, 1, Depth - 1)
    /\ UNCHANGED <<ast, result, pc, consumed>>

\* None => break at the top level: render assembles the module and returns it
ReturnRender ==
    /\ pc = "lines"
    /\ Depth = 1
    /\ Top.at = "loop"
    /\ Len(Cur) = 0
    /\ result' = Ok(Output(Top.builder_lines, Top.imports, Top.typed_params))
    /\ pc' = "done"
    /\ stack' = <<>>
    /\ UNCHANGED <<ast, iters, consumed>>

Next ==
    \/ CallRender
    \/ StepText
    \/ StepIdentifier
    \/ StepBuilder
    \/ StepImport
    \/ StepWith
    \/ StepIf
    \/ StepFor
    \/ ReturnIfLines
    \/ ReturnElseLines
    \/ ReturnLoopLines
    \/ ReturnRender

NextDecl ==
    \/ CallRender
    \/ StepWith
    \/ StepIf
    \/ ReturnIfLines
    \/ ReturnElseLines
    \/ ReturnRender

NextText ==
    \/ CallRender
    \/ StepText
    \/ ReturnRender

Spec == Init /\ [][Next]_vars
SpecDecl == InitDecl /\ [][NextDecl]_vars
SpecText == InitText /\ [][NextText]_vars
FairSpec == Init /\ [][Next]_vars /\ WF_vars(Next)

(***************************************************************************)
(* Reading a template: what the properties say about the input.            *)
(***************************************************************************)
IsWith(node) == node.tag = "With"

\* the With nodes of one sequence (one traversal level), in order
WithsOf(nodes) == SelectSeq(nodes, IsWith)

\* the import paths of the Import nodes of one sequence, in order
ImportsOf(nodes) ==
    LET imps == SelectSeq(nodes, LAMBDA n : n.tag = "Import")
    IN [i \in 1..Len(imps) |-> imps[i].import_details]

\* nodes[j] is a With whose name an earlier With of the same sequence has
IsRepeat(nodes, j) ==
    /\ IsWith(nodes[j])
    /\ \E i \in 1..(j - 1) : IsWith(nodes[i]) /\ nodes[i].identifier = nodes[j].identifier

\* two With nodes of this one sequence share a name
LevelDup(nodes) == \E j \in 1..Len(nodes) : IsRepeat(nodes, j)

\* the bodies of a node, in the order of the source text
BodiesOf(node) ==
    CASE node.tag = "If" -> <<node.if_nodes, node.else_nodes>>
      [] node.tag = "For" -> <<node.loop_nodes>>
      [] OTHER -> <<>>

RECURSIVE LevelsOf(_)
\* every traversal level of a template: the sequence itself and, at any depth,
\* the bodies of its If and For nodes
LevelsOf(nodes) ==
    {nodes} \cup UNION {UNION {LevelsOf(BodiesOf(nodes[i])[b]) :
                                b \in 1..Len(BodiesOf(nodes[i]))} : i \in 1..Len(nodes)}

\* some traversal level of the template has two With nodes of one name
AnyLevelDup(nodes) == \E level \in LevelsOf(nodes) : LevelDup(level)

\* the repeated With nodes of all levels
RepeatsOf(nodes) ==
    UNION {{level[j] : j \in {k \in 1..Len(level) : IsRepeat(level, k)}} :
            level \in LevelsOf(nodes)}

RECURSIVE SizeOf(_)
\* the number of nodes of a template, nested ones included
SizeOf(nodes) ==
    IF Len(nodes) = 0 THEN 0
    ELSE LET bodies == BodiesOf(Head(nodes))
         IN 1 + SizeOf(Tail(nodes))
              + (IF Len(bodies) >= 1 THEN SizeOf(bodies[1]) ELSE 0)
              + (IF Len(bodies) >= 2 THEN SizeOf(bodies[2]) ELSE 0)

(***************************************************************************)
(* Reading the generated module: what the properties say about the output. *)
(***************************************************************************)
RECURSIVE IndexFrom(_, _, _)
\* the first index >= i of piece in s, or 0
IndexFrom(s, piece, i) ==
    IF i > Len(s) THEN 0
    ELSE IF s[i] = piece THEN i
    ELSE IndexFrom(s, piece, i + 1)

\* what stands between the first `open` and the next `close`
Between(s, open, close) ==
    LET i == IndexFrom(s, open, 1)
        j == IndexFrom(s, close, i + 1)
    IN IF i = 0 \/ j = 0 THEN <<"?">> ELSE SubSeq(s, i + 1, j - 1)

RECURSIVE Split(_, _)
\* the parts of s that sep separates; no part at all for the empty s
Split(s, sep) ==
    IF Len(s) = 0 THEN <<>>
    ELSE LET j == IndexFrom(s, sep, 1)
         IN IF j = 0 THEN <<s>>
            ELSE IF j = Len(s) THEN <<SubSeq(s, 1, j - 1), <<>>>>
            ELSE <<SubSeq(s, 1, j - 1)>> \o Split(SubSeq(s, j + 1, Len(s)), sep)

Preamble == "import gleam/string_builder.{StringBuilder}\nimport gleam/list\n\n"
BuilderSigOpen == "\n\npub fn render_builder("
BuilderSigClose ==
    ") -> StringBuilder {\n    let builder = string_builder.from_string(\"\")\n"
RenderSigOpen == "\n    builder\n}\n\npub fn render("
RenderSigClose == ") -> String {\n    string_builder.to_string(render_builder("
CallClose == "))\n}\n"

Done == pc = "done"
Succeeded == pc = "done" /\ result.tag = "Ok"
Failed == pc = "done" /\ result.tag = "Err"

\* the sections of the module render returned
OutImports == Split(Between(result.output, Preamble, BuilderSigOpen), "\n")
OutBuilderParams == Split(Between(result.output, BuilderSigOpen, BuilderSigClose), ", ")
OutBody == Between(result.output, BuilderSigClose, RenderSigOpen)
OutRenderParams == Split(Between(result.output, RenderSigOpen, RenderSigClose), ", ")
OutArgs == Split(Between(result.output, RenderSigClose, CallClose), ", ")

\* the parameter list a sequence of With nodes stands for: `name name: type` each
ParamsFor(withs) ==
    [i \in 1..Len(withs) |->
        <<withs[i].identifier, " ", withs[i].identifier, ": ", withs[i].type_>>]

\* the forwarded arguments a sequence of With nodes stands for: `name: name` each
ArgsFor(withs) ==
    [i \in 1..Len(withs) |-> <<withs[i].identifier, ": ", withs[i].identifier>>]

RECURSIVE Quoted(_)
\* a Text payload with one backslash put before each double quote
Quoted(text) ==
    IF Len(text) = 0 THEN <<>>
    ELSE (IF Head(text) = "\"" THEN <<"\\", "\"">> ELSE <<Head(text)>>)
            \o Quoted(Tail(text))

TextOpen == "    let builder = string_builder.append(builder, \""
TextClose == "\")\n"
AppendOpen == "    let builder = string_builder.append(builder, "
AppendBuilderOpen == "    let builder = string_builder.append_builder(builder, "
CallEnd == ")\n"
CaseOpen == "    let builder = case "
CaseTrue == " {\n        True -> {\n            "
CaseFalse == "\n            builder\n        }\n        False -> {\n            "
CaseClose == "\n            builder\n        }\n}\n"
FoldOpen == "    let builder = list.fold("
FoldFn == ", builder, fn(builder, "
FoldBody == ") {\n        "
FoldClose == "\n        builder\n})\n"

Openers == {TextOpen, AppendOpen, AppendBuilderOpen, CaseOpen, FoldOpen}

Bad == [stmts |-> <<[kind |-> "Bad"]>>, rest |-> <<>>]

\* the piece at index i of s, "" past its end
At(s, i) == IF i <= Len(s) THEN s[i] ELSE ""

From(s, i) == SubSeq(s, i, Len(s))

RECURSIVE ParseStmts(_)
\* [stmts, rest]: the statements that s starts with, as a tree, and what follows
\* them.  A case statement is read as its condition and the statements of its
\* two arms, each arm ending in `builder`; a fold as its list, its entry and
\* the statements of its callback.
ParseStmts(s) ==
    IF At(s, 1) \notin Openers THEN [stmts |-> <<>>, rest |-> s]
    ELSE
        LET one ==
                CASE s[1] = TextOpen ->
                        LET j == IndexFrom(s, TextClose, 2)
                        IN IF j = 0 THEN Bad
                           ELSE [stmts |-> <<[kind |-> "Text", lit |-> SubSeq(s, 2, j - 1)]>>,
                                 rest |-> From(s, j + 1)]
                  [] s[1] = AppendOpen ->
                        IF At(s, 3) # CallEnd THEN Bad
                        ELSE [stmts |-> <<[kind |-> "Identifier", name |-> s[2]]>>,
                              rest |-> From(s, 4)]
                  [] s[1] = AppendBuilderOpen ->
                        IF At(s, 3) # CallEnd THEN Bad
                        ELSE [stmts |-> <<[kind |-> "Builder", name |-> s[2]]>>,
                              rest |-> From(s, 4)]
                  [] s[1] = CaseOpen ->
                        IF At(s, 3) # CaseTrue THEN Bad
                        ELSE LET th == ParseStmts(From(s, 4)) IN
                             IF At(th.rest, 1) # CaseFalse THEN Bad
                             ELSE LET el == ParseStmts(From(th.rest, 2)) IN
                                  IF At(el.rest, 1) # CaseClose THEN Bad
                                  ELSE [stmts |-> <<[kind |-> "If", cond |-> s[2],
                                                     true |-> th.stmts,
                                                     false |-> el.stmts]>>,
                                        rest |-> From(el.rest, 2)]
                  [] s[1] = FoldOpen ->
                        IF At(s, 3) # FoldFn THEN Bad
                        ELSE LET typed == At(s, 5) = ": "
                                 k == IF typed THEN 7 ELSE 5
                             IN IF At(s, k) # FoldBody THEN Bad
                                ELSE LET body == ParseStmts(From(s, k + 1)) IN
                                     IF At(body.rest, 1) # FoldClose THEN Bad
                                     ELSE [stmts |-> <<[kind |-> "For", list |-> s[2],
                                                        entry |-> s[4],
                                                        type |-> IF typed THEN <<s[6]>>
                                                                 ELSE <<>>,
                                                        body |-> body.stmts]>>,
                                           rest |-> From(body.rest, 2)]
            more == ParseStmts(one.rest)
        IN [stmts |-> one.stmts \o more.stmts, rest |-> more.rest]

\* the statements of the body of render_builder, <<Bad>> when it reads as none
StmtsOf(body) ==
    LET p == ParseStmts(body)
    IN IF Len(p.rest) = 0 THEN p.stmts ELSE Bad.stmts

RECURSIVE Skeleton(_)
\* the statements a node sequence stands for: one per Text, Identifier, Builder,
\* If and For node, in order, the bodies of If and For nested in their arms
Skeleton(nodes) ==
    IF Len(nodes) = 0 THEN <<>>
    ELSE
        LET n == Head(nodes)
            first ==
                CASE n.tag = "Text" -> <<[kind |-> "Text", lit |-> Quoted(n.text)]>>
                  [] n.tag = "Identifier" -> <<[kind |-> "Identifier", name |-> n.name]>>
                  [] n.tag = "Builder" -> <<[kind |-> "Builder", name |-> n.name]>>
                  [] n.tag = "If" ->
                        <<[kind |-> "If", cond |-> n.identifier_name,
                           true |-> Skeleton(n.if_nodes),
                           false |-> Skeleton(n.else_nodes)]>>
                  [] n.tag = "For" ->
                        <<[kind |-> "For", list |-> n.list_identifier,
                           entry |-> n.entry_identifier, type |-> n.entry_type,
                           body |-> Skeleton(n.loop_nodes)]>>
                  [] OTHER -> <<>>
        IN first \o Skeleton(Tail(nodes))

(***************************************************************************)
(* Properties.                                                             *)
(***************************************************************************)
\* no body of the nodes before index j has two With nodes of one name at a level
QuietBefore(nodes, j) ==
    \A i \in 1..(j - 1) : \A b \in 1..Len(BodiesOf(nodes[i])) :
        ~AnyLevelDup(BodiesOf(nodes[i])[b])

\* nodes[j] is the first With of the sequence that repeats a name
FirstRepeat(nodes, j) ==
    IsRepeat(nodes, j) /\ \A i \in 1..(j - 1) : ~IsRepeat(nodes, i)

\* C1 as stated: whenever two top-level With nodes share a name, render returns
\* DuplicateParamName with the name and range of the second occurrence.
C1_AsStated ==
    Done => \A j \in 1..Len(ast) :
        FirstRepeat(ast, j) => result = DuplicateParamName(ast[j].identifier, ast[j].range)

\* C1, amended: whenever two top-level With nodes share a name and no If or For
\* node before the second occurrence holds a duplicate of its own, render returns
\* DuplicateParamName with the name and range of the second occurrence, and no
\* text; with such a node before it render fails all the same.
C1_TopLevelDuplicate ==
    Done => \A j \in 1..Len(ast) :
        FirstRepeat(ast, j) =>
            /\ result.tag = "Err"
            /\ QuietBefore(ast, j) =>
                    result = DuplicateParamName(ast[j].identifier, ast[j].range)

C1_Witness ==
    /\ Failed
    /\ \E j \in 1..Len(ast) :
        /\ FirstRepeat(ast, j)
        /\ QuietBefore(ast, j)
        /\ \E i \in 1..(j - 1) : ast[i].tag = "If" /\ Len(WithsOf(ast[i].if_nodes)) > 0

\* C2: when the top-level With nodes have pairwise distinct names and no nested
\* body raises an error, both signatures list exactly those parameters, in
\* order, as `name name: type`, and the forwarding call passes `name: name` for
\* the same names in the same order.
C2_ParameterRoundTrip ==
    (Done /\ ~AnyLevelDup(ast)) =>
        /\ result.tag = "Ok"
        /\ OutBuilderParams = ParamsFor(WithsOf(ast))
        /\ OutRenderParams = ParamsFor(WithsOf(ast))
        /\ OutArgs = ArgsFor(WithsOf(ast))

C2_Witness ==
    /\ Succeeded
    /\ Len(WithsOf(ast)) = 2
    /\ WithsOf(ast)[1].type_ # WithsOf(ast)[2].type_
    /\ ~IsWith(ast[2])

\* the body the activation at depth d > 1 traverses
BodyAt(d) == CASE stack[d - 1].at = "if_nodes" -> stack[d - 1].node.if_nodes
               [] stack[d - 1].at = "else_nodes" -> stack[d - 1].node.else_nodes
               [] stack[d - 1].at = "loop_nodes" -> stack[d - 1].node.loop_nodes

\* the nodes the activation at depth d has consumed
ConsumedAt(d) ==
    LET all == IF d = 1 THEN ast ELSE BodyAt(d)
    IN SubSeq(all, 1, Len(all) - Len(iters[d]))

PairsOf(withs) == [i \in 1..Len(withs) |-> <<withs[i].identifier, withs[i].type_>>]

\* C3: With and Import nodes inside If branches and For bodies contribute nothing:
\* every activation holds the parameters and imports of the nodes of its own
\* sequence only (a nested one starts empty, and nothing it collects reaches its
\* caller), and the signatures and import lines of the module are those of the
\* top-level With and Import nodes.
C3_NestedInert ==
    /\ \A d \in 1..Depth :
        /\ stack[d].typed_params = PairsOf(WithsOf(ConsumedAt(d)))
        /\ stack[d].imports = ImportsOf(ConsumedAt(d))
    /\ Succeeded =>
        /\ OutBuilderParams = ParamsFor(WithsOf(ast))
        /\ OutRenderParams = ParamsFor(WithsOf(ast))
        /\ OutArgs = ArgsFor(WithsOf(ast))
        /\ OutImports = [i \in 1..Len(ImportsOf(ast)) |-> <<"import ", ImportsOf(ast)[i]>>]

\* a With or Import two bodies deep, and the module was returned
C3_Witness ==
    /\ Succeeded
    /\ \E i \in 1..Len(ast) : \E b \in 1..Len(BodiesOf(ast[i])) :
        \E k \in 1..Len(BodiesOf(ast[i])[b]) :
            \E c \in 1..Len(BodiesOf(BodiesOf(ast[i])[b][k])) :
                \E n \in 1..Len(BodiesOf(BodiesOf(ast[i])[b][k])[c]) :
                    BodiesOf(BodiesOf(ast[i])[b][k])[c][n].tag \in {"With", "Import"}

Plain(nodes) == \A i \in 1..Len(nodes) : nodes[i].tag \in {"Text", "Identifier", "Builder"}

\* C4: for a sequence of Text, Identifier and Builder nodes the body holds exactly
\* one append statement per node, the i-th statement being that of the i-th node.
C4_OrderPreserved ==
    (Succeeded /\ Plain(ast)) =>
        LET stmts == StmtsOf(OutBody) IN
        /\ Len(stmts) = Len(ast)
        /\ \A i \in 1..Len(ast) :
            /\ stmts[i].kind = ast[i].tag
            /\ ast[i].tag = "Text" => stmts[i].lit = Quoted(ast[i].text)
            /\ ast[i].tag \in {"Identifier", "Builder"} => stmts[i].name = ast[i].name

C4_Witness ==
    /\ Succeeded
    /\ Plain(ast)
    /\ Len(ast) = 3
    /\ {ast[i].tag : i \in 1..3} = {"Text", "Identifier", "Builder"}

\* C5: the module has one `import <path>` line per top-level Import node, in
\* order and without deduplication; Import nodes put no statement in the body
\* and a template with no With node never fails.
C5_ImportLines ==
    /\ Succeeded =>
        /\ OutImports = [i \in 1..Len(ImportsOf(ast)) |-> <<"import ", ImportsOf(ast)[i]>>]
        /\ Len(StmtsOf(OutBody)) =
            Len(SelectSeq(ast, LAMBDA n : n.tag \notin {"Import", "With"}))
    /\ (Done /\ \A level \in LevelsOf(ast) : Len(WithsOf(level)) = 0) => result.tag = "Ok"

C5_Witness ==
    /\ Succeeded
    /\ Len(ImportsOf(ast)) >= 2
    /\ ImportsOf(ast)[1] = ImportsOf(ast)[2]

\* C6: the literal emitted for a Text node is its payload with exactly one
\* backslash put before every double quote and every other character unchanged.
C6_QuoteEscapedOnce ==
    Succeeded => \A i \in 1..Len(ast) :
        (Plain(ast) /\ ast[i].tag = "Text") =>
            StmtsOf(OutBody)[i] = [kind |-> "Text", lit |-> Quoted(ast[i].text)]

\* two quotes in the payload, one of them after a backslash
C6_Witness ==
    /\ Succeeded
    /\ ast[1].tag = "Text"
    /\ Cardinality({k \in 1..Len(ast[1].text) : ast[1].text[k] = "\""}) >= 2
    /\ \E k \in 2..Len(ast[1].text) : ast[1].text[k - 1] = "\\" /\ ast[1].text[k] = "\""

\* the names declared by the With nodes of one sequence
NamesOf(nodes) == {WithsOf(nodes)[i].identifier : i \in 1..Len(WithsOf(nodes))}

\* the names declared at a nested level and at some other level too
Redeclared(nodes) ==
    {n \in UNION {NamesOf(level) : level \in LevelsOf(nodes) \ {nodes}} :
        Cardinality({level \in LevelsOf(nodes) : n \in NamesOf(level)}) >= 2}

\* the parameters of render_builder's signature that are named n
ParamsNamed(n) == SelectSeq(OutBuilderParams, LAMBDA p : p[1] = n)

\* C7 as stated: a name re-declared in a nested level (of an enclosing level or
\* of a sibling body) is not reported, and the signature has it exactly once.
C7_AsStated ==
    (Done /\ ~AnyLevelDup(ast)) =>
        /\ result.tag = "Ok"
        /\ \A n \in Redeclared(ast) : Len(ParamsNamed(n)) = 1

\* C7, amended: a name re-declared in a nested level is not reported; render
\* succeeds, and the signature has the name once with the top-level type when
\* the top-level sequence declares it, and not at all when only nested levels do.
C7_NestedRedeclaration ==
    (Done /\ ~AnyLevelDup(ast)) =>
        /\ result.tag = "Ok"
        /\ \A n \in Redeclared(ast) :
            ParamsNamed(n) =
                ParamsFor(SelectSeq(WithsOf(ast), LAMBDA w : w.identifier = n))

\* a top-level name re-declared in a nested body with another type
C7_Witness ==
    /\ Succeeded
    /\ \E n \in Redeclared(ast) : \E i \in 1..Len(ast) :
        /\ IsWith(ast[i]) /\ ast[i].identifier = n
        /\ \E level \in LevelsOf(ast) \ {ast} : \E k \in 1..Len(level) :
            IsWith(level[k]) /\ level[k].identifier = n /\ level[k].type_ # ast[i].type_

\* C8: the body of render_builder reads back as the template's tree: one case
\* statement per If node, at the node's place, its True arm holding the
\* statements of the then-branch and its False arm those of the else-branch, in
\* order, each arm ending in `builder`, at every depth.
C8_NestingPreserved ==
    Succeeded => StmtsOf(OutBody) = Skeleton(ast)

\* an If inside the then-branch of an If, with a statement in it and an empty
\* else-branch outside
C8_Witness ==
    /\ Succeeded
    /\ \E i \in 1..Len(ast) :
        /\ ast[i].tag = "If"
        /\ Len(ast[i].else_nodes) = 0
        /\ \E k \in 1..Len(ast[i].if_nodes) :
            /\ ast[i].if_nodes[k].tag = "If"
            /\ Len(Skeleton(ast[i].if_nodes[k].if_nodes)) > 0

\* C9: render fails exactly when some level has two With nodes of one name; the
\* error is that of the first repeated With in source order (ranges number the
\* nodes in source order), unchanged, and no node after it is consumed.
C9_FirstDuplicateAborts ==
    Done =>
        /\ (result.tag = "Err") <=> AnyLevelDup(ast)
        /\ result.tag = "Err" =>
            \E w \in RepeatsOf(ast) :
                /\ \A v \in RepeatsOf(ast) : w.range <= v.range
                /\ result = DuplicateParamName(w.identifier, w.range)
                /\ consumed = w.range

\* both branches of an If hold a duplicate
C9_Witness ==
    /\ Failed
    /\ \E i \in 1..Len(ast) :
        /\ ast[i].tag = "If"
        /\ LevelDup(ast[i].if_nodes)
        /\ LevelDup(ast[i].else_nodes)

RECURSIVE SumSizes(_)
SumSizes(seqs) == IF Len(seqs) = 0 THEN 0 ELSE SizeOf(Head(seqs)) + SumSizes(Tail(seqs))

\* the else-branches still to be traversed
PendingElse ==
    [d \in 1..Depth |-> IF stack[d].at = "if_nodes" THEN stack[d].node.else_nodes ELSE <<>>]

\* what is left to do: the nodes not yet consumed, the calls not yet returned
Variant ==
    3 * (SumSizes(iters) + SumSizes(PendingElse))
        + Depth
        + Cardinality({d \in 1..Depth : stack[d].at = "if_nodes"})

\* C10: render terminates; every step inside render_lines takes one node off the
\* running cursor or returns from a call, a call is given a smaller tree than
\* its caller had, and on success every node was consumed once and the
\* top-level cursor is empty.
C10_Terminates ==
    /\ <>(pc = "done")
    /\ [][(pc = "lines" /\ pc' = "lines") =>
            /\ Variant' < Variant
            /\ consumed' # consumed =>
                /\ consumed' = consumed + 1
                /\ iters'[Depth] = Tail(iters[Depth])
            /\ Depth' > Depth => SizeOf(iters'[Depth']) < SizeOf(iters[Depth])]_vars
    /\ [](Succeeded => consumed = SizeOf(ast) /\ iters = <<<<>>>>)

C10_Witness ==
    /\ Succeeded
    /\ consumed >= 3
    /\ \E i \in 1..Len(ast) : \E b \in 1..Len(BodiesOf(ast[i])) :
        \E k \in 1..Len(BodiesOf(ast[i])[b]) : Len(BodiesOf(BodiesOf(ast[i])[b][k])) > 0

====
